---- MODULE Spec2Model ----
(***************************************************************************)
(* Book review lifecycle of the textbook review backend: the Express       *)
(* handlers uploadBook, assignReviewers, getAggregateStats, recordDecision *)
(* (book controller), submitReview (review controller), updateAssignment   *)
(* (assignment controller), the criteria and conflict-of-interest          *)
(* controllers and the BullMQ reminder and OCR jobs, each modelled as a    *)
(* sequence of atomic Prisma calls so that concurrent requests interleave  *)
(* between two awaits.                                                     *)
(***************************************************************************)
EXTENDS Integers, Sequences, FiniteSets, TLC

\* ---------------------------------------------------------------- bounds
MaxAssignments == 2
MaxClock == 2
MaxDecisions == 2
MaxAggregates == 2
MaxJobs == 2
MaxScores == 3

\* ------------------------------------------------------- static directory
Reviewers == {"A", "B", "C"}

Role(u) ==
  IF u \in Reviewers THEN "REVIEWER"
  ELSE IF u = "S" THEN "SECRETARIAT"
  ELSE IF u = "M" THEN "COMMITTEE"
  ELSE IF u = "D" THEN "ADMIN"
  ELSE "NONE"

BookIds == {"b1", "b2"}

BookStatus ==
  {"PENDING_REVIEW", "UNDER_REVIEW", "REVIEW_COMPLETED",
   "APPROVED", "REJECTED", "NEEDS_REVISION"}

Decision == {"APPROVED", "REJECTED", "NEEDS_REVISION"}

AssignmentStatus == {"PENDING", "IN_PROGRESS", "COMPLETED", "OVERDUE"}

CriterionCodes == {"CONT-1", "CONT-2", "PEDA-1", "PRES-1", "LANG-1", "REF-1"}

\* ------------------------------------------------------------ JSON values
Num(n) == [t |-> "number", n |-> n]
Str == [t |-> "string", n |-> 0]
Entry(c, v) == [code |-> c, val |-> v]
Payload(s, c) == [scores |-> s, comments |-> c, scoresType |-> "object"]
NoPayload == Payload(<<>>, "")

\* a body whose scores field is a string instead of an object
RawPayload == [scores |-> <<>>, comments |-> "raw", scoresType |-> "string"]

\* request bodies offered to POST /:id/review
GoodPayload == Payload(<<Entry("CONT-1", Num(1)), Entry("CONT-2", Num(5))>>, "good")
FairPayload == Payload(<<Entry("CONT-1", Num(4))>>, "fair")
BadPayloads ==
  { Payload(<<Entry("CONT-1", Num(0))>>, "low"),
    Payload(<<Entry("CONT-1", Num(3)), Entry("CONT-2", Num(6))>>, "high"),
    Payload(<<Entry("CONT-1", Str)>>, "text"),
    Payload(<<Entry("ZZZ-9", Num(3))>>, "unknown") }

\* the requests clients send when they run one at a time
Sequential ==
  [books |-> {"b1", "b2"},
   lists |-> {<<"A", "B">>, <<"B", "C">>, <<"A", "M">>},
   users |-> {"A", "B"},
   payloads |-> {GoodPayload, FairPayload},
   decisions |-> {"APPROVED", "NEEDS_REVISION"},
   rationales |-> {"insufficient detail"},
   statuses |-> {"PENDING", "COMPLETED", "OVERDUE"},
   dues |-> {"", "D1"}]

\* every kind of well-formed, malformed and refused request, one at a time,
\* against a single book with a single reviewer
Solo ==
  [books |-> {"b1"},
   lists |-> {<<"A">>, <<"A", "A">>},
   users |-> {"A", "B"},
   payloads |-> {GoodPayload, FairPayload} \cup BadPayloads,
   decisions |-> {"APPROVED", "REJECTED", "NEEDS_REVISION"},
   rationales |-> {"", "insufficient detail"},
   statuses |-> {"", "IN_PROGRESS", "OVERDUE"},
   dues |-> {"", "D2"}]

\* the score sheets of the two reviewers of the end-to-end run, and a sheet
\* scoring a third criterion
SheetR1 == Payload(<<Entry("CONT-1", Num(4)), Entry("CONT-2", Num(5))>>, "r1")
SheetR2 == Payload(<<Entry("CONT-1", Num(2)), Entry("CONT-2", Num(3))>>, "r2")
SheetR3 == Payload(<<Entry("PEDA-1", Num(3))>>, "r3")

\* the requests of the end-to-end run and its variations, one at a time
Scenario ==
  [books |-> {"b1"},
   lists |-> {<<>>, <<"A", "B">>, <<"A", "">>},
   users |-> {"A", "B"},
   payloads |-> {SheetR1, SheetR2, SheetR3, RawPayload},
   decisions |-> {"NEEDS_REVISION"},
   rationales |-> {"insufficient detail"},
   statuses |-> {"COMPLETED"},
   dues |-> {""}]

\* the requests clients send when two of them run concurrently
Narrow ==
  [books |-> {"b1"},
   lists |-> {<<"A">>, <<"A", "B">>},
   users |-> {"A", "B"},
   payloads |-> {GoodPayload},
   decisions |-> {"APPROVED", "NEEDS_REVISION"},
   rationales |-> {"insufficient detail"},
   statuses |-> {"COMPLETED"},
   dues |-> {""}]

\* ids of the criteria rows; c7 is the id a createCriterion call is given
CriterionIds == {"c1", "c2", "c3", "c4", "c5", "c6", "c7"}

NoCriterion == [code |-> "", weight |-> 0]

\* the rows the seed script creates, weights in hundredths
SeedCriteria ==
  [c \in CriterionIds |->
     IF c = "c1" THEN [code |-> "CONT-1", weight |-> 25]
     ELSE IF c = "c2" THEN [code |-> "CONT-2", weight |-> 20]
     ELSE IF c = "c3" THEN [code |-> "PEDA-1", weight |-> 15]
     ELSE IF c = "c4" THEN [code |-> "PRES-1", weight |-> 15]
     ELSE IF c = "c5" THEN [code |-> "LANG-1", weight |-> 15]
     ELSE IF c = "c6" THEN [code |-> "REF-1", weight |-> 10]
     ELSE NoCriterion]

Slots == {"s1", "s2"}

VARIABLES books, assignments, reviews, decisions, clock, req, last,
          aggregates, criteria, coi, audit, reminders, ocr, jobs, run

vars == <<books, assignments, reviews, decisions, clock, req, last,
          aggregates, criteria, coi, audit, reminders, ocr, jobs, run>>

db == <<books, assignments, reviews, decisions, clock>>

\* the tables and queues the review lifecycle handlers never write
side == <<aggregates, criteria, coi, audit, reminders, ocr, jobs>>

\* ---------------------------------------------------------------- helpers
Range(s) == {s[k] : k \in DOMAIN s}

\* the codes of the rows of the criteria table
LiveCodes == {criteria[c].code : c \in CriterionIds} \ {""}

Min(S) == CHOOSE x \in S : \A y \in S : x <= y

NoAsg == [book_id |-> "", reviewer_id |-> "", status |-> "", due_date |-> ""]

Idle ==
  [op |-> "idle", pc |-> "idle", user |-> "", book |-> "", aid |-> 0,
   ids |-> <<>>, i |-> 0, payload |-> NoPayload, draft |-> FALSE,
   decision |-> "", rationale |-> "", status |-> "", due |-> "",
   sBook |-> "", sAssigned |-> {}, sAsg |-> NoAsg, sReview |-> 0,
   stats |-> <<>>, summary |-> <<>>, crit |-> "", ccode |-> "", weight |-> 0,
   sCrit |-> NoCriterion, conflict |-> FALSE, channel |-> "", when |-> "",
   rid |-> 0, sample |-> <<>>, details |-> "NULL", replaced |-> FALSE,
   filter |-> "", range |-> FALSE, rows |-> {},
   code |-> 0, msg |-> ""]

\* no handler is between two awaits
Quiet == \A s \in Slots : req[s].pc = "idle"

\* a request is taken by the first free slot
Free(s) ==
  /\ req[s].pc = "idle"
  /\ s = "s2" => req["s1"].pc # "idle"

\* the n-th request of the end-to-end run, answered as the run expects
RunRequest(n, r) ==
  \/ n = 1 /\ r.op = "uploadBook" /\ r.code = 201
  \/ n = 2 /\ r.op = "assignReviewers" /\ r.code = 201 /\ r.ids = <<"A", "B">>
  \/ n = 3 /\ r.op = "submitReview" /\ r.code = 201 /\ r.user = "A"
           /\ r.payload = SheetR1 /\ ~r.draft
  \/ n = 4 /\ r.op = "submitReview" /\ r.code = 201 /\ r.user = "B"
           /\ r.payload = SheetR2 /\ ~r.draft
  \/ n = 5 /\ r.op = "getAggregateStats" /\ r.code = 200
  \/ n = 6 /\ r.op = "recordDecision" /\ r.code = 201
           /\ r.decision = "NEEDS_REVISION"
           /\ r.rationale = "insufficient detail"

\* how far the requests answered so far are a prefix of the end-to-end run;
\* -1 once they are not
RunAfter(n, r) == IF n >= 0 /\ RunRequest(n + 1, r) THEN n + 1 ELSE -1

\* res.status(code).json(...) / next(new AppError(msg, code)): the request ends
Respond(s, r, code, msg) ==
  /\ req' = [req EXCEPT ![s] = Idle]
  /\ last' = [r EXCEPT !.pc = "done", !.code = code, !.msg = msg]
  /\ run' = RunAfter(run, last')

\* the handler awaits its next Prisma call
Continue(s, r) ==
  /\ req' = [req EXCEPT ![s] = r]
  /\ UNCHANGED <<last, run>>

Init ==
  /\ books = [b \in BookIds |-> "NONE"]
  /\ assignments = <<>>
  /\ reviews = <<>>
  /\ decisions = <<>>
  /\ clock = 0
  /\ req = [s \in Slots |-> Idle]
  /\ last = Idle
  /\ aggregates = <<>>
  /\ criteria = SeedCriteria
  /\ coi = {}
  /\ audit = {}
  /\ reminders = <<>>
  /\ ocr = <<>>
  /\ jobs = <<>>
  /\ run = 0

\* the column types of the tables
TypeOK ==
  /\ books \in [BookIds -> BookStatus \cup {"NONE"}]
  /\ \A k \in DOMAIN assignments :
       /\ assignments[k].book_id \in BookIds
       /\ assignments[k].status \in AssignmentStatus
  /\ \A k \in DOMAIN reviews :
       /\ reviews[k].assignment_id \in DOMAIN assignments
       /\ reviews[k].draft_flag \in BOOLEAN
  /\ \A k \in DOMAIN decisions :
       /\ decisions[k].book_id \in BookIds
       /\ decisions[k].decision \in Decision

\* ------------------------------------------------------------- uploadBook
BookOrder == <<"b1", "b2">>

\* ids the database has not handed out yet
FreeBookIdx(bs) ==
  {k \in DOMAIN BookOrder : BookOrder[k] \in bs /\ books[BookOrder[k]] = "NONE"}

\* prisma.book.create({status: PENDING_REVIEW}), the handler's only await
UploadBook(s, bs) ==
  /\ Free(s)
  /\ FreeBookIdx(bs) # {}
  /\ LET b == BookOrder[Min(FreeBookIdx(bs))] IN
       /\ books' = [books EXCEPT ![b] = "PENDING_REVIEW"]
       /\ Respond(s, [Idle EXCEPT !.op = "uploadBook", !.user = "S",
                                  !.book = b], 201, "success")
  /\ UNCHANGED <<assignments, reviews, decisions, clock>>
  /\ UNCHANGED side

\* -------------------------------------------------------- assignReviewers
NewAssignment(b, u, due) ==
  [book_id |-> b, reviewer_id |-> u, status |-> "PENDING", due_date |-> due]

\* book.status !== BookStatus.PENDING_REVIEW is refused
AssignableStatus(st) == st = "PENDING_REVIEW"

\* the lookup without its role filter
FoundReviewers_AnyRole(ids) == {u \in Range(ids) : Role(u) # "NONE"}

\* rows returned by user.findMany({id: {in: ids}, role: REVIEWER})
FoundReviewers(ids) == {u \in Range(ids) : Role(u) = "REVIEWER"}

\* reviewer ids of book.assignments as read by findUnique({include})
AssignedTo(b) ==
  {assignments[k].reviewer_id :
     k \in {j \in DOMAIN assignments : assignments[j].book_id = b}}

\* first index >= i of reviewer_ids whose reviewer is not in book.assignments
NextCreate(r, i) ==
  LET todo == {k \in i..Len(r.ids) : r.ids[k] \notin r.sAssigned}
  IN IF todo = {} THEN 0 ELSE Min(todo)

\* rows the request r will still insert from index i on
ToCreate(r, i) ==
  Cardinality({k \in i..Len(r.ids) : r.ids[k] \notin r.sAssigned})

\* rows still to be inserted by the assignReviewers requests in flight
PendingCreates ==
  LET n(s) == IF req[s].pc = "ar_create" THEN ToCreate(req[s], req[s].i) ELSE 0
  IN n("s1") + n("s2")

AfterCreate(r, i) ==
  IF NextCreate(r, i) = 0
  THEN [r EXCEPT !.pc = "ar_update", !.i = 0]
  ELSE [r EXCEPT !.pc = "ar_create", !.i = NextCreate(r, i)]

\* body('reviewer_ids').isArray().notEmpty(): express-validator runs notEmpty
\* on each element of an array, so an array without elements passes
ValidReviewerIds(ids) == \A k \in DOMAIN ids : ids[k] # ""

\* the request arrives; validationResult, prisma.book.findUnique({include:
\* {assignments}}), the state guard, prisma.user.findMany and the count guard
AssignReviewers(s, b, ids) ==
  /\ Free(s)
  /\   LET r == [Idle EXCEPT !.op = "assignReviewers", !.user = "S",
                                !.book = b, !.ids = ids, !.due = "D1",
                                !.sBook = books[b],
                                !.sAssigned = AssignedTo(b)]
          IN IF ~ValidReviewerIds(ids)
             THEN Respond(s, r, 400, "At least one reviewer must be assigned")
             ELSE IF books[b] = "NONE"
             THEN Respond(s, r, 404, "Book not found")
             ELSE IF ~AssignableStatus(books[b])
             THEN Respond(s, r, 400,
                          "Book is not in a valid state for assignment")
             ELSE IF Cardinality(FoundReviewers(ids)) # Len(ids)
             THEN Respond(s, r, 404, "One or more reviewers not found")
             ELSE /\ Len(assignments) + PendingCreates + ToCreate(r, 1)
                     <= MaxAssignments
                  /\ Continue(s, AfterCreate(r, 1))
  /\ UNCHANGED db
  /\ UNCHANGED side

\* prisma.assignment.create for the next reviewer without an existing row
ArCreate(s) ==
  /\ req[s].pc = "ar_create"
  /\ LET r == req[s] IN
       /\ assignments' =
            Append(assignments, NewAssignment(r.book, r.ids[r.i], r.due))
       /\ Continue(s, AfterCreate(r, r.i + 1))
  /\ UNCHANGED <<books, reviews, decisions, clock>>
  /\ UNCHANGED side

\* prisma.book.update({status: UNDER_REVIEW})
ArUpdate(s) ==
  /\ req[s].pc = "ar_update"
  /\ books' = [books EXCEPT ![req[s].book] = "UNDER_REVIEW"]
  /\ Respond(s, req[s], 201, "success")
  /\ UNCHANGED <<assignments, reviews, decisions, clock>>
  /\ UNCHANGED side

\* ------------------------------------------------------- getAggregateStats
RECURSIVE Ascending(_, _)
\* the members of S as a sequence, by increasing key
Ascending(S, key) ==
  IF S = {} THEN <<>>
  ELSE LET m == CHOOSE x \in S : \A y \in S : key[x] <= key[y]
       IN <<m>> \o Ascending(S \ {m}, key)

\* the draft filter left out
Collected_WithDrafts(b) ==
  LET ks == {k \in DOMAIN reviews : assignments[reviews[k].assignment_id].book_id = b}
  IN Ascending(ks, [k \in ks |->
                      reviews[k].assignment_id * (Len(reviews) + 1) + k])

\* book.assignments.map(a => a.reviews).flat().filter(r => !r.draft_flag):
\* ids of the reviews of the book's assignments, assignment by assignment
Collected(b) ==
  LET ks == {k \in DOMAIN reviews :
               /\ assignments[reviews[k].assignment_id].book_id = b
               /\ ~reviews[k].draft_flag}
  IN Ascending(ks, [k \in ks |->
                      reviews[k].assignment_id * (Len(reviews) + 1) + k])

RECURSIVE Flatten(_)
\* reviews.forEach(review => Object.keys(review.scores).forEach(...)): the
\* entries in the order the two loops visit them
Flatten(ks) ==
  IF ks = <<>> THEN <<>> ELSE reviews[Head(ks)].scores \o Flatten(Tail(ks))

RECURSIVE FirstSeen(_, _)
\* Object.keys(allScores): the codes in the order they were first pushed
FirstSeen(es, seen) ==
  IF es = <<>> THEN <<>>
  ELSE IF Head(es).code \in seen THEN FirstSeen(Tail(es), seen)
  ELSE <<Head(es).code>> \o FirstSeen(Tail(es), seen \cup {Head(es).code})

\* allScores[criterionCode]
ScoresFor(es, c) ==
  LET sel == SelectSeq(es, LAMBDA e : e.code = c)
  IN [k \in DOMAIN sel |-> sel[k].val.n]

RECURSIVE Sum(_)
Sum(xs) == IF xs = <<>> THEN 0 ELSE Head(xs) + Sum(Tail(xs))

Rat(n, d) == [num |-> n, den |-> d]

RatLess(a, b) == a.num * b.den < b.num * a.den

RatAdd(a, b) == Rat(a.num * b.den + b.num * a.den, a.den * b.den)

\* the scores left in the order the reviews were read
Sorted_AsRead(xs) == xs

\* scores.sort(): the scores are single digits, whose string order is their
\* numeric order
Sorted(xs) ==
  LET ks == DOMAIN xs
      ord == Ascending(ks, [k \in ks |-> xs[k] * (Len(xs) + 1) + k])
  IN [k \in DOMAIN ord |-> xs[ord[k]]]

\* Math.min over the other end of the list
StatMin_Last(xs) == Sorted(xs)[Len(xs)]

\* Math.min(...scores)
StatMin(xs) == Sorted(xs)[1]

\* Math.max(...scores)
StatMax(xs) == Sorted(xs)[Len(xs)]

\* mean, median, population variance, min, max and count of one criterion
StatsOf(xs) ==
  LET n == Len(xs)
      sum == Sum(xs)
  IN [mean |-> Rat(sum, n),
      median |-> Sorted(xs)[(n \div 2) + 1],
      variance |-> Rat(Sum([k \in DOMAIN xs |->
                              (n * xs[k] - sum) * (n * xs[k] - sum)]), n * n * n),
      min |-> StatMin(xs),
      max |-> StatMax(xs),
      count |-> n]

\* the scores one criterion can collect from up to MaxScores final reviews
Samples == UNION {[1..n -> 1..5] : n \in 1..MaxScores}

\* the body of the forEach over allScores, for one criterion's scores
CriterionStats(xs) ==
  /\ last' = [Idle EXCEPT !.op = "criterionStats", !.pc = "done",
                          !.sample = xs, !.stats = StatsOf(xs)]
  /\ UNCHANGED <<db, side, req, run>>

\* criteriaStats of the collected reviews ks
CriteriaStats(ks) ==
  LET es == Flatten(ks)
  IN [c \in Range(FirstSeen(es, {})) |-> StatsOf(ScoresFor(es, c))]

RECURSIVE ByMeanDesc(_, _)
\* Object.entries(criteriaStats).sort((a, b) => b.mean - a.mean), a stable sort
ByMeanDesc(cs, st) ==
  IF cs = <<>> THEN <<>>
  ELSE LET best == CHOOSE k \in DOMAIN cs :
                     /\ \A j \in DOMAIN cs : ~RatLess(st[cs[k]].mean, st[cs[j]].mean)
                     /\ \A j \in 1..(k - 1) : RatLess(st[cs[j]].mean, st[cs[k]].mean)
       IN <<cs[best]>> \o
          ByMeanDesc(SelectSeq(cs, LAMBDA c : c # cs[best]), st)

Reverse(xs) == [k \in DOMAIN xs |-> xs[Len(xs) + 1 - k]]

\* overallMean.toFixed(2) in hundredths; 0 / 0 prints as NaN
Overall(cs, st) ==
  IF cs = <<>> THEN "NaN"
  ELSE LET RECURSIVE Total(_)
           Total(xs) == IF xs = <<>> THEN Rat(0, 1)
                        ELSE RatAdd(st[Head(xs)].mean, Total(Tail(xs)))
           t == Rat(Total(cs).num, Total(cs).den * Len(cs))
       IN (200 * t.num + t.den) \div (2 * t.den)

\* the overall mean, the three strongest and the three weakest criteria
SummaryOf(ks) ==
  LET cs == FirstSeen(Flatten(ks), {})
      st == CriteriaStats(ks)
      sorted == ByMeanDesc(cs, st)
      n == Len(sorted)
  IN [overall |-> Overall(cs, st),
      strengths |-> SubSeq(sorted, 1, IF n < 3 THEN n ELSE 3),
      weaknesses |-> Reverse(SubSeq(sorted, IF n < 3 THEN 1 ELSE n - 2, n))]

\* the guard counting every assignment instead of the completed ones
CompletedReviews_Any(b) ==
  Cardinality({k \in DOMAIN assignments : assignments[k].book_id = b})

\* book.assignments.filter(a => a.status === 'COMPLETED').length
CompletedReviews(b) ==
  Cardinality({k \in DOMAIN assignments :
                 assignments[k].book_id = b /\ assignments[k].status = "COMPLETED"})

\* the request arrives; prisma.book.findUnique({include: {assignments:
\* {include: {reviews}}}}), the completed guard and the statistics
GetAggregateStats(s, b) ==
  /\ Free(s)
  /\   LET r == [Idle EXCEPT !.op = "getAggregateStats", !.user = "M",
                             !.book = b, !.sBook = books[b]]
       IN IF books[b] = "NONE"
          THEN Respond(s, r, 404, "Book not found")
          ELSE IF CompletedReviews(b) = 0
          THEN Respond(s, r, 400, "No completed reviews found")
          ELSE /\ Len(aggregates) + Cardinality({t \in Slots :
                      req[t].pc = "ga_upsert"}) < MaxAggregates
               /\ Continue(s, [r EXCEPT !.pc = "ga_upsert",
                                        !.stats = CriteriaStats(Collected(b)),
                                        !.summary = SummaryOf(Collected(b))])
  /\ UNCHANGED <<db, aggregates, criteria, coi, audit, reminders, ocr, jobs>>

\* computed_at of the newest row, 0 for an empty table
LatestComputedAt ==
  IF aggregates = <<>> THEN 0
  ELSE CHOOSE t \in {aggregates[k].computed_at : k \in DOMAIN aggregates} :
         \A k \in DOMAIN aggregates : aggregates[k].computed_at <= t

\* rows selected by where: {book_id_computed_at: {book_id, computed_at}}
AggregateAt(b, t) ==
  {k \in DOMAIN aggregates :
     aggregates[k].book_id = b /\ aggregates[k].computed_at = t}

\* prisma.aggregateResult.upsert keyed by (book_id, new Date()): the clock
\* either still shows the millisecond of the newest row or a later one
GaUpsert(s) ==
  /\ req[s].pc = "ga_upsert"
  /\ \E now \in {LatestComputedAt, LatestComputedAt + 1} :
       LET r == req[s]
           hit == AggregateAt(r.book, now)
       IN /\ now > 0
          /\ IF hit # {}
             THEN aggregates' =
                    [k \in DOMAIN aggregates |->
                       IF k \in hit
                       THEN [aggregates[k] EXCEPT !.stats = r.stats,
                                                  !.summary = r.summary]
                       ELSE aggregates[k]]
             ELSE aggregates' = Append(aggregates,
                    [book_id |-> r.book, computed_at |-> now,
                     stats |-> r.stats, summary |-> r.summary])
          /\ Respond(s, r, 200, "success")
  /\ UNCHANGED <<db, criteria, coi, audit, reminders, ocr, jobs>>

\* --------------------------------------------------------- recordDecision
\* the guard also letting a book UNDER_REVIEW through
DecidableStatus_Lax(st) == st \in {"REVIEW_COMPLETED", "UNDER_REVIEW"}

\* book.status !== BookStatus.REVIEW_COMPLETED is refused
DecidableStatus(st) == st = "REVIEW_COMPLETED"

\* the request arrives; body validation, prisma.book.findUnique, state guard
RecordDecision(s, b, d, ra) ==
  /\ Free(s)
  /\   LET r == [Idle EXCEPT !.op = "recordDecision", !.user = "M",
                             !.book = b, !.decision = d, !.rationale = ra,
                             !.sBook = books[b]]
       IN IF ra = ""
          THEN Respond(s, [r EXCEPT !.sBook = ""], 400, "Rationale is required")
          ELSE IF books[b] = "NONE"
          THEN Respond(s, r, 404, "Book not found")
          ELSE IF ~DecidableStatus(books[b])
          THEN Respond(s, r, 400, "Book is not in a valid state for decision")
          ELSE /\ Len(decisions) + Cardinality({t \in Slots :
                      req[t].pc = "rd_create"}) < MaxDecisions
               /\ Continue(s, [r EXCEPT !.pc = "rd_create"])
  /\ UNCHANGED db
  /\ UNCHANGED side

\* prisma.committeeDecision.create
RdCreate(s) ==
  /\ req[s].pc = "rd_create"
  /\ decisions' = Append(decisions, [book_id |-> req[s].book,
                                     decided_by |-> req[s].user,
                                     decision |-> req[s].decision,
                                     rationale |-> req[s].rationale])
  /\ Continue(s, [req[s] EXCEPT !.pc = "rd_update"])
  /\ UNCHANGED <<books, assignments, reviews, clock>>
  /\ UNCHANGED side

\* decision === 'APPROVED' ? APPROVED : decision === 'REJECTED' ? REJECTED : NEEDS_REVISION
StatusOfDecision(d) ==
  IF d = "APPROVED" THEN "APPROVED"
  ELSE IF d = "REJECTED" THEN "REJECTED"
  ELSE "NEEDS_REVISION"

\* prisma.book.update({status: <decision>})
RdUpdate(s) ==
  /\ req[s].pc = "rd_update"
  /\ books' = [books EXCEPT ![req[s].book] = StatusOfDecision(req[s].decision)]
  /\ Respond(s, req[s], 201, "success")
  /\ UNCHANGED <<assignments, reviews, decisions, clock>>
  /\ UNCHANGED side

\* ------------------------------------------------------------ submitReview
\* ids of the rows of assignment.reviews: where {reviewer_id: req.user.id}
ReviewsOf(a, u) ==
  {k \in DOMAIN reviews :
     reviews[k].assignment_id = a /\ reviews[k].reviewer_id = u}

\* the range test without its upper limit
ValidScore_NoUpper(v) == v.t = "number" /\ v.n >= 1

\* typeof score !== 'number' || score < 1 || score > 5 is refused
ValidScore(v) == v.t = "number" /\ v.n >= 1 /\ v.n <= 5

\* criterionCodes.includes(code) over prisma.criterion.findMany()
KnownCode(c) == c \in LiveCodes

\* the message of the first offending entry of Object.keys(scores), "" if none
ScoreError(scores) ==
  LET bad == {k \in DOMAIN scores :
                ~KnownCode(scores[k].code) \/ ~ValidScore(scores[k].val)}
  IN IF bad = {} THEN ""
     ELSE IF ~KnownCode(scores[Min(bad)].code)
     THEN "Invalid criterion code"
     ELSE "Score must be a number between 1 and 5"

\* body('scores').isObject(), the route's validator
WellFormed(p) == p.scoresType = "object"

\* the request arrives; validationResult, prisma.assignment.findUnique(
\* {include: {book, reviews}}), the ownership guard, prisma.criterion.findMany
\* and the score loop; reviews[0] of an unordered result is any matching row
SubmitReview(s, a, u, p, d) ==
  /\ Free(s)
  /\   LET r == [Idle EXCEPT !.op = "submitReview", !.user = u, !.aid = a,
                             !.payload = p, !.draft = d]
       IN IF ~WellFormed(p)
          THEN Respond(s, r, 400,
                       "Scores must be an object mapping criteria to scores")
          ELSE IF a \notin DOMAIN assignments
          THEN Respond(s, r, 404, "Assignment not found")
          ELSE IF assignments[a].reviewer_id # u
          THEN Respond(s, [r EXCEPT !.sAsg = assignments[a]], 403,
                       "You are not authorized to review this assignment")
          ELSE \E rv \in (IF ReviewsOf(a, u) = {} THEN {0}
                          ELSE ReviewsOf(a, u)) :
                 LET q == [r EXCEPT !.sAsg = assignments[a],
                                    !.book = assignments[a].book_id,
                                    !.sBook = books[assignments[a].book_id],
                                    !.sReview = rv]
                 IN IF ScoreError(p.scores) # ""
                    THEN Respond(s, q, 400, ScoreError(p.scores))
                    ELSE /\ clock + Cardinality({t \in Slots :
                                req[t].pc = "sr_write"}) < MaxClock
                         /\ Continue(s, [q EXCEPT !.pc = "sr_write"])
  /\ UNCHANGED db
  /\ UNCHANGED side

\* the guard on draft_flag left out
Finalises_Always(draft) == TRUE

\* if (!draft_flag) guards the assignment and book updates
Finalises(draft) == ~draft

\* prisma.review.update on reviews[0], or prisma.review.create
SrWrite(s) ==
  /\ req[s].pc = "sr_write"
  /\ LET r == req[s] IN
       /\ clock' = clock + 1
       /\ IF r.sReview # 0
          THEN reviews' = [reviews EXCEPT ![r.sReview] =
                 [@ EXCEPT !.scores = r.payload.scores,
                           !.comments = r.payload.comments,
                           !.draft_flag = r.draft,
                           !.submitted_at = clock + 1]]
          ELSE reviews' = Append(reviews,
                 [assignment_id |-> r.aid, reviewer_id |-> r.user,
                  scores |-> r.payload.scores,
                  comments |-> r.payload.comments,
                  draft_flag |-> r.draft, submitted_at |-> clock + 1])
       /\ IF Finalises(r.draft)
          THEN Continue(s, [r EXCEPT !.pc = "sr_assign"])
          ELSE Respond(s, r, 201, "success")
  /\ UNCHANGED <<books, assignments, decisions>>
  /\ UNCHANGED side

\* prisma.assignment.update({status: COMPLETED})
SrAssign(s) ==
  /\ req[s].pc = "sr_assign"
  /\ assignments' = [assignments EXCEPT ![req[s].aid].status = "COMPLETED"]
  /\ Continue(s, [req[s] EXCEPT !.pc = "sr_all"])
  /\ UNCHANGED <<books, reviews, decisions, clock>>
  /\ UNCHANGED side

\* the test comparing with a status no assignment has
AllCompleted_Misspelt(b) ==
  \A k \in DOMAIN assignments :
    assignments[k].book_id = b => assignments[k].status = "COMPLETE"

\* the test written with some() instead of every()
AllCompleted_Some(b) ==
  \E k \in DOMAIN assignments :
    assignments[k].book_id = b /\ assignments[k].status = "COMPLETED"

\* allAssignments.every(a => a.status === COMPLETED) over findMany({book_id})
AllCompleted(b) ==
  \A k \in DOMAIN assignments :
    assignments[k].book_id = b => assignments[k].status = "COMPLETED"

\* prisma.assignment.findMany({book_id}) and the every() test
SrAll(s) ==
  /\ req[s].pc = "sr_all"
  /\ LET r == req[s] IN
       IF AllCompleted(r.sAsg.book_id)
       THEN Continue(s, [r EXCEPT !.pc = "sr_book"])
       ELSE Respond(s, r, 201, "success")
  /\ UNCHANGED db
  /\ UNCHANGED side

\* prisma.book.update({status: 'REVIEW_COMPLETED'})
SrBook(s) ==
  /\ req[s].pc = "sr_book"
  /\ books' = [books EXCEPT ![req[s].sAsg.book_id] = "REVIEW_COMPLETED"]
  /\ Respond(s, req[s], 201, "success")
  /\ UNCHANGED <<assignments, reviews, decisions, clock>>
  /\ UNCHANGED side

\* -------------------------------------------------------- updateAssignment
\* body('status').optional().isIn(['PENDING', 'IN_PROGRESS', 'COMPLETED'])
PatchableStatus(st) == st \in {"PENDING", "IN_PROGRESS", "COMPLETED"}

\* the request arrives; body validation, the empty-update guard and
\* prisma.assignment.update({where: {id}, data}), which throws on a missing row
UpdateAssignment(s, a, st, due) ==
  /\ Free(s)
  /\   LET r == [Idle EXCEPT !.op = "updateAssignment", !.user = "S",
                             !.aid = a, !.status = st, !.due = due]
       IN IF st # "" /\ ~PatchableStatus(st)
          THEN /\ Respond(s, r, 400, "Invalid assignment status")
               /\ UNCHANGED assignments
          ELSE IF st = "" /\ due = ""
          THEN /\ Respond(s, r, 400, "No fields provided to update")
               /\ UNCHANGED assignments
          ELSE IF a \notin DOMAIN assignments
          THEN /\ Respond(s, r, 500, "Record to update not found")
               /\ UNCHANGED assignments
          ELSE /\ assignments' = [assignments EXCEPT ![a] =
                    [@ EXCEPT !.status = IF st # "" THEN st ELSE @,
                              !.due_date = IF due # "" THEN due ELSE @]]
               /\ Respond(s, [r EXCEPT !.sAsg = assignments[a]], 200, "success")
  /\ UNCHANGED <<books, reviews, decisions, clock>>
  /\ UNCHANGED side

\* ------------------------------------------------------ criteria controller
\* body('weight').isFloat({min: 0, max: 1}), weights in hundredths
ValidWeight(w) == w >= 0 /\ w <= 100

\* ['ADMIN'].includes(user_role)
MayEditCriteria(u) == Role(u) = "ADMIN"

\* ids of the rows with the code c: prisma.criterion.findUnique({where: {code}})
CriteriaWithCode(c) == {k \in CriterionIds : c # "" /\ criteria[k].code = c}

\* the request arrives; validationResult, the role guard and the lookup of the
\* code; the new row is given the id c7
CreateCriterion(s, u, c, w) ==
  /\ Free(s)
  /\   LET r == [Idle EXCEPT !.op = "createCriterion", !.user = u,
                             !.crit = "c7", !.ccode = c, !.weight = w]
       IN IF c = "" \/ ~ValidWeight(w)
          THEN Respond(s, r, 400, "validation")
          ELSE IF ~MayEditCriteria(u)
          THEN Respond(s, r, 403, "Access denied")
          ELSE IF CriteriaWithCode(c) # {}
          THEN Respond(s, r, 400, "Criterion with this code already exists")
          ELSE /\ criteria["c7"] = NoCriterion
               /\ \A t \in Slots : req[t].pc # "cc_create"
               /\ Continue(s, [r EXCEPT !.pc = "cc_create"])
  /\ UNCHANGED <<db, aggregates, criteria, coi, audit, reminders, ocr, jobs>>

\* prisma.criterion.create; the unique index on code refuses a duplicate
CcCreate(s) ==
  /\ req[s].pc = "cc_create"
  /\ LET r == req[s] IN
       IF CriteriaWithCode(r.ccode) # {}
       THEN /\ Respond(s, r, 500, "Unique constraint failed")
            /\ UNCHANGED criteria
       ELSE /\ criteria' = [criteria EXCEPT ![r.crit] =
                              [code |-> r.ccode, weight |-> r.weight]]
            /\ Continue(s, [r EXCEPT !.pc = "cc_audit"])
  /\ UNCHANGED <<db, aggregates, coi, audit, reminders, ocr, jobs>>

\* prisma.auditLog.create; the log is kept as the set of the actions it holds
Logged(action) == audit \cup {action}

CcAudit(s) ==
  /\ req[s].pc = "cc_audit"
  /\ audit' = Logged("CRITERION_CREATED")
  /\ Respond(s, req[s], 201, "success")
  /\ UNCHANGED <<db, aggregates, criteria, coi, reminders, ocr, jobs>>

\* the request arrives; validationResult, the role guard and
\* prisma.criterion.findUnique({where: {id}})
UpdateCriterion(s, u, id, c, w) ==
  /\ Free(s)
  /\   LET r == [Idle EXCEPT !.op = "updateCriterion", !.user = u,
                             !.crit = id, !.ccode = c, !.weight = w,
                             !.sCrit = criteria[id]]
       IN IF c = "" \/ ~ValidWeight(w)
          THEN Respond(s, [r EXCEPT !.sCrit = NoCriterion], 400, "validation")
          ELSE IF ~MayEditCriteria(u)
          THEN Respond(s, [r EXCEPT !.sCrit = NoCriterion], 403, "Access denied")
          ELSE IF criteria[id] = NoCriterion
          THEN Respond(s, r, 404, "Criterion not found")
          ELSE IF c # criteria[id].code
          THEN Continue(s, [r EXCEPT !.pc = "uc_check"])
          ELSE Continue(s, [r EXCEPT !.pc = "uc_update"])
  /\ UNCHANGED <<db, aggregates, criteria, coi, audit, reminders, ocr, jobs>>

\* prisma.criterion.findUnique({where: {code}}) for a changed code
UcCheck(s) ==
  /\ req[s].pc = "uc_check"
  /\ IF CriteriaWithCode(req[s].ccode) # {}
     THEN Respond(s, req[s], 400, "Criterion with this code already exists")
     ELSE Continue(s, [req[s] EXCEPT !.pc = "uc_update"])
  /\ UNCHANGED <<db, aggregates, criteria, coi, audit, reminders, ocr, jobs>>

\* prisma.criterion.update({where: {id}, data: {code, ..., weight}})
UcUpdate(s) ==
  /\ req[s].pc = "uc_update"
  /\ LET r == req[s] IN
       IF criteria[r.crit] = NoCriterion
       THEN /\ Respond(s, r, 500, "Record to update not found")
            /\ UNCHANGED criteria
       ELSE IF CriteriaWithCode(r.ccode) \ {r.crit} # {}
       THEN /\ Respond(s, r, 500, "Unique constraint failed")
            /\ UNCHANGED criteria
       ELSE /\ criteria' = [criteria EXCEPT ![r.crit] =
                              [code |-> r.ccode, weight |-> r.weight]]
            /\ Continue(s, [r EXCEPT !.pc = "uc_audit"])
  /\ UNCHANGED <<db, aggregates, coi, audit, reminders, ocr, jobs>>

UcAudit(s) ==
  /\ req[s].pc = "uc_audit"
  /\ audit' = Logged("CRITERION_UPDATED")
  /\ Respond(s, req[s], 200, "success")
  /\ UNCHANGED <<db, aggregates, criteria, coi, reminders, ocr, jobs>>

\* the request arrives; the role guard and prisma.criterion.findUnique
DeleteCriterion(s, u, id) ==
  /\ Free(s)
  /\   LET r == [Idle EXCEPT !.op = "deleteCriterion", !.user = u,
                             !.crit = id, !.sCrit = criteria[id]]
       IN IF ~MayEditCriteria(u)
          THEN Respond(s, [r EXCEPT !.sCrit = NoCriterion], 403, "Access denied")
          ELSE IF criteria[id] = NoCriterion
          THEN Respond(s, r, 404, "Criterion not found")
          ELSE Continue(s, [r EXCEPT !.pc = "dc_check"])
  /\ UNCHANGED <<db, aggregates, criteria, coi, audit, reminders, ocr, jobs>>

\* prisma.review.findFirst({where: {scores: {path: [code], not: null}}})
UsedInReviews(c) ==
  \E k \in DOMAIN reviews :
    \E j \in DOMAIN reviews[k].scores : reviews[k].scores[j].code = c

DcCheck(s) ==
  /\ req[s].pc = "dc_check"
  /\ IF UsedInReviews(req[s].sCrit.code)
     THEN Respond(s, req[s], 400,
                  "Cannot delete criterion that is being used in reviews")
     ELSE Continue(s, [req[s] EXCEPT !.pc = "dc_delete"])
  /\ UNCHANGED <<db, aggregates, criteria, coi, audit, reminders, ocr, jobs>>

\* prisma.criterion.delete({where: {id}})
DcDelete(s) ==
  /\ req[s].pc = "dc_delete"
  /\ LET r == req[s] IN
       IF criteria[r.crit] = NoCriterion
       THEN /\ Respond(s, r, 500, "Record to delete does not exist")
            /\ UNCHANGED criteria
       ELSE /\ criteria' = [criteria EXCEPT ![r.crit] = NoCriterion]
            /\ Continue(s, [r EXCEPT !.pc = "dc_audit"])
  /\ UNCHANGED <<db, aggregates, coi, audit, reminders, ocr, jobs>>

DcAudit(s) ==
  /\ req[s].pc = "dc_audit"
  /\ audit' = Logged("CRITERION_DELETED")
  /\ Respond(s, req[s], 200, "success")
  /\ UNCHANGED <<db, aggregates, criteria, coi, reminders, ocr, jobs>>

\* ----------------------------------------------------------- coi controller
\* conflict_details || null: an absent and an empty string are stored as NULL
OrNull(d) == IF d = "" THEN "NULL" ELSE d

\* the request arrives; validationResult and
\* prisma.assignment.findFirst({where: {id, reviewer_id}})
SubmitCOIDeclaration(s, u, a, hc, cd) ==
  /\ Free(s)
  /\   LET r == [Idle EXCEPT !.op = "submitCOIDeclaration", !.user = u,
                             !.aid = a, !.conflict = hc, !.details = cd]
       IN IF a = 0
          THEN Respond(s, r, 400, "Assignment ID is required")
          ELSE IF a \notin DOMAIN assignments \/ assignments[a].reviewer_id # u
          THEN Respond(s, r, 404, "Assignment not found or access denied")
          ELSE Continue(s, [r EXCEPT !.pc = "coi_upsert",
                                     !.sAsg = assignments[a]])
  /\ UNCHANGED <<db, aggregates, criteria, coi, audit, reminders, ocr, jobs>>

\* the rows with the key of the row d
SameKey(rows, d) ==
  {e \in rows : e.assignment_id = d.assignment_id
                  /\ e.reviewer_id = d.reviewer_id}

\* a create whatever the table holds
Upserted_Created(rows, d) == rows \cup {d}

\* upsert where assignment_id_reviewer_id: the row with the key is updated,
\* and created when there is none
Upserted(rows, d) == (rows \ SameKey(rows, d)) \cup {d}

\* prisma.conflictOfInterest.upsert keyed by (assignment_id, reviewer_id)
CoiUpsert(s) ==
  /\ req[s].pc = "coi_upsert"
  /\ LET r == req[s]
         d == [assignment_id |-> r.aid, reviewer_id |-> r.user,
               has_conflict |-> r.conflict,
               conflict_details |-> OrNull(r.details)]
     IN /\ coi' = Upserted(coi, d)
        /\ Continue(s, [r EXCEPT !.pc = "coi_audit",
                                 !.replaced = SameKey(coi, d) # {}])
  /\ UNCHANGED <<db, aggregates, criteria, audit, reminders, ocr, jobs>>

CoiAudit(s) ==
  /\ req[s].pc = "coi_audit"
  /\ audit' = Logged("COI_DECLARATION_SUBMITTED")
  /\ Respond(s, req[s], 200, "success")
  /\ UNCHANGED <<db, aggregates, criteria, coi, reminders, ocr, jobs>>

\* ----------------------------------------------------- analytics controller
\* !['ADMIN', 'SECRETARIAT'].includes(user_role) is refused
MayReadAnalytics(u) == Role(u) \in {"ADMIN", "SECRETARIAT"}

\* the columns a where clause on books, assignments and reviews can name; a
\* clause naming another one makes the Prisma call throw
DateColumns == {"uploaded_at", "assigned_at", "submitted_at"}

\* reviewerStats: total and completed assignments per reviewer read
ReviewerStats(ks) ==
  [u \in {assignments[k].reviewer_id : k \in ks} |->
     [total_assignments |->
        Cardinality({k \in ks : assignments[k].reviewer_id = u}),
      completed_assignments |->
        Cardinality({k \in ks : /\ assignments[k].reviewer_id = u
                                 /\ assignments[k].status = "COMPLETED"})]]

\* getReviewerMetrics: the role guard, prisma.assignment.findMany filtered by
\* reviewerId, and the reduce; the handler only reads
GetReviewerMetrics(s, u, rv) ==
  /\ Free(s)
  /\ LET r == [Idle EXCEPT !.op = "getReviewerMetrics", !.user = u,
                           !.filter = rv]
         ks == {k \in DOMAIN assignments :
                  rv # "" => assignments[k].reviewer_id = rv}
     IN IF ~MayReadAnalytics(u)
        THEN Respond(s, r, 403, "Access denied")
        ELSE Respond(s, [r EXCEPT !.rows = ks, !.stats = ReviewerStats(ks)],
                     200, "success")
  /\ UNCHANGED <<db, side>>

\* getSystemAnalytics: the role guard and the counts; a date range is put
\* into the where clause as created_at, which none of the three tables has
GetSystemAnalytics(s, u, range) ==
  /\ Free(s)
  /\ LET r == [Idle EXCEPT !.op = "getSystemAnalytics", !.user = u,
                           !.range = range]
     IN IF ~MayReadAnalytics(u)
        THEN Respond(s, r, 403, "Access denied")
        ELSE IF range /\ "created_at" \notin DateColumns
        THEN Respond(s, r, 500, "Unknown argument created_at")
        ELSE Respond(s, [r EXCEPT !.stats =
                           [totalBooks |->
                              Cardinality({b \in BookIds : books[b] # "NONE"}),
                            totalAssignments |-> Len(assignments),
                            totalReviews |-> Len(reviews)]],
                     200, "success")
  /\ UNCHANGED <<db, side>>

\* if (status) whereClause.status = status, and findMany({where})
Tracked(st) ==
  {k \in DOMAIN assignments : st # "" => assignments[k].status = st}

\* getAssignmentTracking: the role guard and the first page of
\* prisma.assignment.findMany, which holds all the rows there are
GetAssignmentTracking(s, u, st) ==
  /\ Free(s)
  /\ LET r == [Idle EXCEPT !.op = "getAssignmentTracking", !.user = u,
                           !.filter = st]
     IN IF ~MayReadAnalytics(u)
        THEN Respond(s, r, 403, "Access denied")
        ELSE Respond(s, [r EXCEPT !.rows = Tracked(st)], 200, "success")
  /\ UNCHANGED <<db, side>>

\* ------------------------------------------------------- background jobs
\* the attempts of a job added without the attempts option: BullMQ's default
DefaultAttempts == 1

\* attempts and backoff.delay of ocrQueue.add
OcrAttempts == 3
OcrBackoff == 2000

RECURSIVE Pow2(_)
Pow2(n) == IF n = 0 THEN 1 ELSE 2 * Pow2(n - 1)

\* a job as the queue stores it
NewJob(queue, ref, channel, attempts, backoff, state) ==
  [queue |-> queue, ref |-> ref, channel |-> channel, attempts |-> attempts,
   backoff |-> backoff, attemptsMade |-> 0, delay |-> 0, state |-> state,
   step |-> "find", out |-> ""]

\* jobs the handlers in flight are about to add
PendingAdds ==
  Cardinality({t \in Slots : req[t].pc \in {"cr_create", "cr_add", "po_add"}})

\* the request arrives; validationResult
CreateReminder(s, u, ch, when) ==
  /\ Free(s)
  /\   LET r == [Idle EXCEPT !.op = "createReminder", !.user = u,
                             !.channel = ch, !.when = when]
       IN IF u = "" \/ ch \notin {"EMAIL", "SMS", "WHATSAPP", "IN_APP"}
          THEN Respond(s, r, 400, "validation")
          ELSE /\ Len(jobs) + PendingAdds < MaxJobs
               /\ Continue(s, [r EXCEPT !.pc = "cr_create"])
  /\ UNCHANGED <<db, side>>

\* prisma.reminder.create, whose status defaults to PENDING
CrCreate(s) ==
  /\ req[s].pc = "cr_create"
  /\ reminders' = Append(reminders, [user_id |-> req[s].user,
                                     channel |-> req[s].channel,
                                     status |-> "PENDING"])
  /\ Continue(s, [req[s] EXCEPT !.pc = "cr_add", !.rid = Len(reminders) + 1])
  /\ UNCHANGED <<db, aggregates, criteria, coi, audit, ocr, jobs>>

\* reminderQueue.add('send-reminder', data, {delay}): a job scheduled in the
\* future waits as delayed
CrAdd(s) ==
  /\ req[s].pc = "cr_add"
  /\ jobs' = Append(jobs, NewJob("reminder", req[s].rid, req[s].channel,
                                  DefaultAttempts, 0,
                                  IF req[s].when = "future" THEN "delayed"
                                  ELSE "waiting"))
  /\ Respond(s, req[s], 201, "success")
  /\ UNCHANGED <<db, aggregates, criteria, coi, audit, reminders, ocr>>

\* the request arrives; the role guard and prisma.book.findUnique
ProcessOCR(s, u, b) ==
  /\ Free(s)
  /\   LET r == [Idle EXCEPT !.op = "processOCR", !.user = u, !.book = b]
       IN IF Role(u) \notin {"ADMIN", "SECRETARIAT"}
          THEN Respond(s, r, 403, "Access denied")
          ELSE IF books[b] = "NONE"
          THEN Respond(s, r, 404, "Book not found")
          ELSE /\ Len(jobs) + PendingAdds < MaxJobs
               /\ Continue(s, [r EXCEPT !.pc = "po_add"])
  /\ UNCHANGED <<db, side>>

\* ocrQueue.add('process-ocr', data, {attempts: 3, backoff: exponential 2000})
PoAdd(s) ==
  /\ req[s].pc = "po_add"
  /\ jobs' = Append(jobs, NewJob("ocr", req[s].book, "", OcrAttempts,
                                  OcrBackoff, "waiting"))
  /\ Respond(s, req[s], 200, "OCR processing started")
  /\ UNCHANGED <<db, aggregates, criteria, coi, audit, reminders, ocr>>

\* the request arrives; prisma.reminder.update({status: CANCELLED}), which
\* throws on a missing row
CancelReminder(s, rid) ==
  /\ Free(s)
  /\   LET r == [Idle EXCEPT !.op = "cancelReminder", !.rid = rid]
       IN IF rid \notin DOMAIN reminders
          THEN /\ Respond(s, r, 500, "Record to update not found")
               /\ UNCHANGED reminders
          ELSE /\ reminders' = [reminders EXCEPT ![rid].status = "CANCELLED"]
               /\ Continue(s, [r EXCEPT !.pc = "cn_remove"])
  /\ UNCHANGED <<db, aggregates, criteria, coi, audit, ocr, jobs>>

\* getJobs(['waiting', 'delayed']) and job.remove() of the first match
CnRemove(s) ==
  /\ req[s].pc = "cn_remove"
  /\ LET hit == {j \in DOMAIN jobs :
                   /\ jobs[j].state \in {"waiting", "delayed"}
                   /\ jobs[j].queue = "reminder"
                   /\ jobs[j].ref = req[s].rid}
     IN IF hit = {} THEN UNCHANGED jobs
        ELSE jobs' = [jobs EXCEPT ![Min(hit)].state = "removed"]
  /\ Respond(s, req[s], 200, "success")
  /\ UNCHANGED <<db, aggregates, criteria, coi, audit, reminders, ocr>>

\* the delay of a delayed job has elapsed
Promote(j) ==
  /\ jobs[j].state = "delayed"
  /\ jobs' = [jobs EXCEPT ![j].state = "waiting", ![j].delay = 0]
  /\ UNCHANGED <<db, req, last, run, aggregates, criteria, coi, audit,
                 reminders, ocr>>

\* a worker takes a waiting job
TakeJob(j) ==
  /\ jobs[j].state = "waiting"
  /\ jobs' = [jobs EXCEPT ![j].state = "active"]
  /\ UNCHANGED <<db, req, last, run, aggregates, criteria, coi, audit,
                 reminders, ocr>>

\* BullMQ after the processor returned or threw: a job that threw is delayed
\* by its backoff while attempts remain, and failed otherwise
Settle(job, threw) ==
  LET made == job.attemptsMade + 1
  IN IF ~threw
     THEN [job EXCEPT !.attemptsMade = made, !.state = "completed"]
     ELSE IF made < job.attempts
     THEN [job EXCEPT !.attemptsMade = made, !.state = "delayed",
                      !.delay = Pow2(made - 1) * job.backoff]
     ELSE [job EXCEPT !.attemptsMade = made, !.state = "failed"]

\* what the delivery over a channel can do: sendSMS catches its errors and
\* returns false, the in-app channel does nothing, and the e-mail and
\* WhatsApp services may succeed, return false or throw
Deliveries(ch) ==
  IF ch = "IN_APP" THEN {"sent"}
  ELSE IF ch = "SMS" THEN {"sent", "unsent"}
  ELSE {"sent", "unsent", "throws"}

\* processReminder up to the delivery: prisma.reminder.findUnique and the
\* guard, which skips a reminder that is no longer PENDING
ProcessReminder(j) ==
  /\ jobs[j].state = "active" /\ jobs[j].queue = "reminder"
  /\ jobs[j].step = "find"
  /\ IF reminders[jobs[j].ref].status # "PENDING"
     THEN jobs' = [jobs EXCEPT ![j] = Settle(jobs[j], FALSE)]
     ELSE jobs' = [jobs EXCEPT ![j].step = "deliver"]
  /\ UNCHANGED <<db, req, last, run, aggregates, criteria, coi, audit,
                 reminders, ocr>>

\* the delivery over the job's channel returns or throws
PrDeliver(j) ==
  /\ jobs[j].state = "active" /\ jobs[j].queue = "reminder"
  /\ jobs[j].step = "deliver"
  /\ \E out \in Deliveries(jobs[j].channel) :
       jobs' = [jobs EXCEPT ![j].step = "update", ![j].out = out]
  /\ UNCHANGED <<db, req, last, run, aggregates, criteria, coi, audit,
                 reminders, ocr>>

\* status: sent ? 'SENT' : 'FAILED', and FAILED in the catch block
Outcome(status, out) == IF out = "sent" THEN "SENT" ELSE "FAILED"

\* prisma.reminder.update of the outcome, in the try block or in the catch
\* block, which does not rethrow: the processor returns
PrUpdate(j) ==
  /\ jobs[j].state = "active" /\ jobs[j].queue = "reminder"
  /\ jobs[j].step = "update"
  /\ reminders' = [reminders EXCEPT ![jobs[j].ref].status =
                     Outcome(@, jobs[j].out)]
  /\ jobs' = [jobs EXCEPT ![j] = [Settle(jobs[j], FALSE) EXCEPT
                                   !.step = "find", !.out = ""]]
  /\ UNCHANGED <<db, req, last, run, aggregates, criteria, coi, audit, ocr>>

\* processOCRJob: a missing file or a failing recognition throws, otherwise
\* page 1 is stored in the index
ProcessOCRJob(j) ==
  /\ jobs[j].state = "active" /\ jobs[j].queue = "ocr"
  /\ \E out \in {"ok", "throws"} :
       IF out = "ok"
       THEN /\ ocr' = Append(ocr, [book_id |-> jobs[j].ref, page_number |-> 1])
            /\ jobs' = [jobs EXCEPT ![j] = Settle(jobs[j], FALSE)]
       ELSE /\ UNCHANGED ocr
            /\ jobs' = [jobs EXCEPT ![j] = Settle(jobs[j], TRUE)]
  /\ UNCHANGED <<db, req, last, run, aggregates, criteria, coi, audit,
                 reminders>>

\* ----------------------------------------------------------- specifications
\* a request of the workload In arrives and runs up to its first await
Arrive(s, In) ==
  \/ UploadBook(s, In.books)
  \/ \E b \in In.books, ids \in In.lists : AssignReviewers(s, b, ids)
  \/ \E b \in In.books, d \in In.decisions, ra \in In.rationales :
       RecordDecision(s, b, d, ra)
  \/ \E a \in 1..MaxAssignments, u \in In.users, p \in In.payloads,
        d \in BOOLEAN : SubmitReview(s, a, u, p, d)
  \/ \E a \in 1..MaxAssignments, st \in In.statuses, due \in In.dues :
       UpdateAssignment(s, a, st, due)

\* a handler in flight performs its next Prisma call
Step(s) ==
  \/ ArCreate(s)
  \/ ArUpdate(s)
  \/ RdCreate(s)
  \/ RdUpdate(s)
  \/ SrWrite(s)
  \/ SrAssign(s)
  \/ SrAll(s)
  \/ SrBook(s)

\* up to two requests in flight, interleaved at their awaits
Next == \E s \in Slots : Arrive(s, Narrow) \/ Step(s)

Spec == Init /\ [][Next]_vars

\* requests executed one at a time
NextSeq == \E s \in Slots : (Quiet /\ Arrive(s, Sequential)) \/ Step(s)

SpecSeq == Init /\ [][NextSeq]_vars

\* one book, one reviewer, every kind of request, one at a time
NextSolo == \E s \in Slots : (Quiet /\ Arrive(s, Solo)) \/ Step(s)

SpecSolo == Init /\ [][NextSolo]_vars

\* the end-to-end run and its variations: the lifecycle requests and the
\* aggregate statistics, one at a time
NextRun ==
  \E s \in Slots :
    \/ Quiet /\ Arrive(s, Scenario)
    \/ Quiet /\ \E b \in Scenario.books : GetAggregateStats(s, b)
    \/ Step(s)
    \/ GaUpsert(s)

SpecRun == Init /\ [][NextRun]_vars

\* one reviewer and one book, for the criteria and declaration handlers
Brief ==
  [books |-> {"b1"},
   lists |-> {<<"A">>},
   users |-> {"A", "B"},
   payloads |-> {SheetR1},
   decisions |-> {"APPROVED"},
   rationales |-> {"insufficient detail"},
   statuses |-> {"IN_PROGRESS"},
   dues |-> {""}]

\* the bodies sent to the criteria and the coi controller: user, id, code,
\* weight in hundredths; user, assignment, has_conflict, conflict_details
AdminInputs ==
  [creates |-> {<<"D", "NEW-1", 30>>, <<"D", "CONT-2", 30>>,
                <<"S", "NEW-1", 30>>, <<"D", "NEW-1", 150>>},
   updates |-> {<<"D", "c1", "CONT-1", 50>>, <<"D", "c1", "CONT-9", 25>>,
                <<"D", "c1", "CONT-2", 25>>, <<"S", "c1", "CONT-1", 50>>,
                <<"D", "c7", "NEW-1", 30>>},
   deletes |-> {<<"D", "c1">>, <<"D", "c6">>, <<"S", "c6">>, <<"D", "c7">>},
   declarations |-> {<<"A", 1, FALSE, "NULL">>, <<"A", 1, FALSE, "">>,
                     <<"A", 1, TRUE, "I know the author personally">>,
                     <<"B", 1, FALSE, "NULL">>, <<"A", 0, FALSE, "NULL">>}]

\* a request to the criteria or the coi controller arrives
ArriveAdmin(s) ==
  \/ \E x \in AdminInputs.creates : CreateCriterion(s, x[1], x[2], x[3])
  \/ \E x \in AdminInputs.updates : UpdateCriterion(s, x[1], x[2], x[3], x[4])
  \/ \E x \in AdminInputs.deletes : DeleteCriterion(s, x[1], x[2])
  \/ \E x \in AdminInputs.declarations :
       SubmitCOIDeclaration(s, x[1], x[2], x[3], x[4])

StepAdmin(s) ==
  \/ CcCreate(s)
  \/ CcAudit(s)
  \/ UcCheck(s)
  \/ UcUpdate(s)
  \/ UcAudit(s)
  \/ DcCheck(s)
  \/ DcDelete(s)
  \/ DcAudit(s)
  \/ CoiUpsert(s)
  \/ CoiAudit(s)

\* the lifecycle of one book together with the criteria registry and the
\* conflict-of-interest declarations, one request at a time
NextAdmin ==
  \E s \in Slots :
    \/ Quiet /\ Arrive(s, Brief)
    \/ Quiet /\ ArriveAdmin(s)
    \/ Step(s)
    \/ StepAdmin(s)

SpecAdmin == Init /\ [][NextAdmin]_vars

\* a request to the reminder or the ocr controller arrives
ArriveJobs(s) ==
  \/ UploadBook(s, {"b1"})
  \/ \E u \in {"", "A"}, ch \in {"EMAIL", "SMS", "IN_APP"},
        when \in {"past", "future"} : CreateReminder(s, u, ch, when)
  \/ \E u \in {"S", "A"}, b \in {"b1"} : ProcessOCR(s, u, b)
  \/ \E rid \in 1..MaxJobs : CancelReminder(s, rid)

StepJobs(s) ==
  \/ CrCreate(s)
  \/ CrAdd(s)
  \/ PoAdd(s)
  \/ CnRemove(s)

\* the queue and its two workers
Work(j) ==
  \/ Promote(j)
  \/ TakeJob(j)
  \/ ProcessReminder(j)
  \/ PrDeliver(j)
  \/ PrUpdate(j)
  \/ ProcessOCRJob(j)

\* reminders and OCR requests, one at a time, next to the workers
NextJobs ==
  \/ \E s \in Slots : (Quiet /\ ArriveJobs(s)) \/ StepJobs(s)
  \/ \E j \in DOMAIN jobs : Work(j)

SpecJobs == Init /\ [][NextJobs]_vars

\* the steps of assignReviewers and submitReview
StepRace(s) ==
  \/ ArCreate(s)
  \/ ArUpdate(s)
  \/ SrWrite(s)
  \/ SrAssign(s)
  \/ SrAll(s)
  \/ SrBook(s)

\* no assignReviewers request is in flight
Assigned == \A t \in Slots : req[t].op # "assignReviewers"

\* a book is uploaded and given its reviewers, and once that is done their
\* submissions run concurrently
NextRace ==
  \E s \in Slots :
    \/ Quiet /\ UploadBook(s, Narrow.books)
    \/ Quiet /\ \E b \in Narrow.books, ids \in Narrow.lists :
                  AssignReviewers(s, b, ids)
    \/ Assigned /\ \E a \in 1..MaxAssignments, u \in Narrow.users,
                       p \in Narrow.payloads, d \in BOOLEAN :
                    SubmitReview(s, a, u, p, d)
    \/ StepRace(s)

SpecRace == Init /\ [][NextRace]_vars

\* the steps of assignReviewers, submitReview and recordDecision
StepDecide(s) ==
  \/ StepRace(s)
  \/ RdCreate(s)
  \/ RdUpdate(s)

\* a book is uploaded and given its reviewers, and once that is done their
\* submissions and the committee's decisions run concurrently
NextDecide ==
  \E s \in Slots :
    \/ Quiet /\ UploadBook(s, Narrow.books)
    \/ Quiet /\ \E b \in Narrow.books, ids \in Narrow.lists :
                  AssignReviewers(s, b, ids)
    \/ Assigned /\ \E a \in 1..MaxAssignments, u \in Narrow.users,
                       p \in Narrow.payloads, d \in BOOLEAN :
                    SubmitReview(s, a, u, p, d)
    \/ Assigned /\ \E b \in Narrow.books, d \in Narrow.decisions,
                       ra \in Narrow.rationales : RecordDecision(s, b, d, ra)
    \/ StepDecide(s)

SpecDecide == Init /\ [][NextDecide]_vars

\* a request to the analytics controller arrives
ArriveAnalytics(s) ==
  \/ \E u \in {"D", "S", "A", "M"}, rv \in {"", "A"} :
       GetReviewerMetrics(s, u, rv)
  \/ \E u \in {"D", "S", "A", "M"}, range \in BOOLEAN :
       GetSystemAnalytics(s, u, range)
  \/ \E u \in {"D", "S", "A", "M"}, st \in {"", "PENDING", "COMPLETED"} :
       GetAssignmentTracking(s, u, st)

\* the lifecycle of one book and the analytics, one request at a time
NextAnalytics ==
  \E s \in Slots :
    \/ Quiet /\ Arrive(s, Narrow)
    \/ Quiet /\ ArriveAnalytics(s)
    \/ Step(s)

SpecAnalytics == Init /\ [][NextAnalytics]_vars

\* the statistics of one criterion, over every list of scores
NextStats == \E xs \in Samples : CriterionStats(xs)

SpecStats == Init /\ [][NextStats]_vars

\* ------------------------------------------------------------------ claims
RowsOfBook(b) == {k \in DOMAIN assignments : assignments[k].book_id = b}

DiagramEdges ==
  { <<"PENDING_REVIEW", "UNDER_REVIEW">>,
    <<"UNDER_REVIEW", "REVIEW_COMPLETED">>,
    <<"REVIEW_COMPLETED", "APPROVED">>,
    <<"REVIEW_COMPLETED", "REJECTED">>,
    <<"REVIEW_COMPLETED", "NEEDS_REVISION">> }

\* C1: every change of a stored book's status is one of the five edges of the
\* lifecycle diagram, so no book leaves a terminal status or moves backwards.
C1_StatusFollowsDiagram ==
  [][\A b \in BookIds :
       (books[b] # "NONE" /\ books'[b] # books[b])
         => <<books[b], books'[b]>> \in DiagramEdges]_vars

\* C2: with requests one at a time and the book UNDER_REVIEW, a final
\* SubmitReview on the only assignment not yet COMPLETED completes it and moves
\* the book to REVIEW_COMPLETED; a final SubmitReview while another assignment
\* of the book is not COMPLETED completes it and leaves the book UNDER_REVIEW.
C2_FinalSubmitFlipsOnLast ==
  (Quiet /\ last.op = "submitReview" /\ last.code = 201 /\ ~last.draft
         /\ last.sBook = "UNDER_REVIEW")
    => LET others == RowsOfBook(last.book) \ {last.aid}
           othersDone == \A k \in others : assignments[k].status = "COMPLETED"
       IN /\ (last.sAsg.status # "COMPLETED" /\ othersDone)
               => /\ assignments[last.aid].status = "COMPLETED"
                  /\ books[last.book] = "REVIEW_COMPLETED"
          /\ ~othersDone
               => /\ assignments[last.aid].status = "COMPLETED"
                  /\ books[last.book] = "UNDER_REVIEW"

\* C2 witness: the second of two reviewers has just submitted a final review
\* and the book has moved to REVIEW_COMPLETED.
C2_Witness ==
  /\ Quiet /\ last.op = "submitReview" /\ last.code = 201 /\ ~last.draft
  /\ last.sBook = "UNDER_REVIEW" /\ last.sAsg.status # "COMPLETED"
  /\ RowsOfBook(last.book) \ {last.aid} # {}
  /\ \A k \in RowsOfBook(last.book) : assignments[k].status = "COMPLETED"
  /\ books[last.book] = "REVIEW_COMPLETED"

StatusesOf(rows) == [k \in DOMAIN rows |-> rows[k].status]

\* a step taken by a SubmitReview request with draft_flag = true
DraftStep(s) ==
  \/ req[s].op = "submitReview" /\ req[s].draft /\ req'[s] # req[s]
  \/ req[s].op = "idle" /\ req'[s].op = "submitReview" /\ req'[s].draft
  \/ req' = req /\ last' # last /\ last'.op = "submitReview" /\ last'.draft

\* C3: no step of a SubmitReview with draftFlag=true changes the status of an
\* assignment or of a book; at most one Review row is created or overwritten.
C3_DraftLeavesStatuses ==
  [][\A s \in Slots : DraftStep(s) =>
       /\ StatusesOf(assignments') = StatusesOf(assignments)
       /\ books' = books
       /\ decisions' = decisions
       /\ Len(reviews') \in {Len(reviews), Len(reviews) + 1}
       /\ \A k \in DOMAIN reviews :
            k # req[s].sReview => reviews'[k] = reviews[k]]_vars

\* C3 witness: a draft has just overwritten the stored final review of a
\* COMPLETED assignment.
C3_Witness ==
  /\ last.op = "submitReview" /\ last.draft /\ last.code = 201
  /\ last.sReview # 0
  /\ reviews[last.sReview].draft_flag
  /\ assignments[last.aid].status = "COMPLETED"

DecisionsOf(b) == {k \in DOMAIN decisions : decisions[k].book_id = b}

\* C4: a book has at most one CommitteeDecision row, every RecordDecision
\* after the first successful one being rejected.
C4_AtMostOneDecision ==
  \A b \in BookIds : Cardinality(DecisionsOf(b)) <= 1

RowsOf(b, u) ==
  {k \in DOMAIN assignments :
     assignments[k].book_id = b /\ assignments[k].reviewer_id = u}

\* C5: AssignReviewers with {B,C} on a book that an earlier call gave the
\* reviewers {A,B} ends with exactly one assignment each for A, B and C.
C5_OverlapCreatesDelta ==
  (Quiet /\ last.op = "assignReviewers" /\ last.ids = <<"B", "C">>
         /\ last.sAssigned = {"A", "B"})
    => \A u \in {"A", "B", "C"} : Cardinality(RowsOf(last.book, u)) = 1

\* C6: there is at most one Assignment row per (book, reviewer) pair.
C6_OneAssignmentPerPair ==
  \A b \in BookIds, u \in Reviewers : Cardinality(RowsOf(b, u)) <= 1

\* C7: there is at most one Review row per assignment.
C7_OneReviewPerAssignment ==
  \A a \in DOMAIN assignments :
    Cardinality({k \in DOMAIN reviews : reviews[k].assignment_id = a}) <= 1

\* C8: whenever a book moves to REVIEW_COMPLETED, every assignment of the
\* book has, at that moment, a stored review with draftFlag=false.
C8_CompletionNeedsFinalReviews ==
  [][\A b \in BookIds :
       (books[b] # "REVIEW_COMPLETED" /\ books'[b] = "REVIEW_COMPLETED")
         => \A a \in RowsOfBook(b) :
              \E k \in DOMAIN reviews' :
                reviews'[k].assignment_id = a /\ ~reviews'[k].draft_flag]_vars

\* C9: a RecordDecision arriving while the stored book's status is not
\* REVIEW_COMPLETED is rejected with the not-in-valid-state error, whatever
\* the decision value, and creates no decision row and changes no book.
C9_DecisionNeedsReviewCompleted ==
  [][(last' # last /\ last'.op = "recordDecision" /\ last'.rationale # ""
        /\ books[last'.book] \notin {"NONE", "REVIEW_COMPLETED"})
       => /\ last'.code = 400
          /\ last'.msg = "Book is not in a valid state for decision"
          /\ decisions' = decisions
          /\ books' = books]_vars

\* C9 witness: a REJECTED decision on a book still UNDER_REVIEW was refused.
C9_Witness ==
  /\ last.op = "recordDecision" /\ last.code = 400
  /\ last.decision = "REJECTED"
  /\ last.sBook = "UNDER_REVIEW" /\ books[last.book] = "UNDER_REVIEW"
  /\ decisions = <<>>

\* an entry of scores that the contract refuses
RefusedEntry(e) ==
  \/ e.code \notin CriterionCodes
  \/ e.val.t # "number"
  \/ e.val.n < 1
  \/ e.val.n > 5

\* C10: a SubmitReview whose scores hold a refused entry is rejected and
\* changes no Review, Assignment or Book; a sheet of valid entries, the
\* boundary values 1 and 5 included, is accepted from the assigned reviewer.
C10_ScoresValidated ==
  [][(last' # last /\ last'.op = "submitReview")
       => LET sheet == last'.payload.scores
              refused == \E k \in DOMAIN sheet : RefusedEntry(sheet[k])
          IN /\ refused
                  => /\ last'.code \in {400, 403, 404}
                     /\ reviews' = reviews
                     /\ assignments' = assignments
                     /\ books' = books
             /\ (~refused /\ last'.aid \in DOMAIN assignments
                   /\ assignments[last'.aid].reviewer_id = last'.user)
                  => last'.code = 201]_vars

\* C10 witness: a sheet with a score of 6 has just been refused while the
\* sheet with the boundary scores 1 and 5 is stored.
C10_Witness ==
  /\ last.op = "submitReview" /\ last.code = 400
  /\ last.msg = "Score must be a number between 1 and 5"
  /\ \E k \in DOMAIN last.payload.scores : last.payload.scores[k].val.n = 6
  /\ \E k \in DOMAIN reviews : reviews[k].scores = GoodPayload.scores

\* C11: a book whose status is UNDER_REVIEW has at least one assignment.
C11_UnderReviewHasAssignment ==
  \A b \in BookIds : books[b] = "UNDER_REVIEW" => RowsOfBook(b) # {}

\* a list the contract refuses for the book b
RefusedBatch(b, ids) ==
  \/ books[b] = "NONE"
  \/ books[b] # "PENDING_REVIEW"
  \/ \E k \in DOMAIN ids : Role(ids[k]) # "REVIEWER"

\* C12: an AssignReviewers call for a missing book, a book not in
\* PENDING_REVIEW or a list holding an id that is no REVIEWER is rejected, and
\* a rejected call creates no assignment and leaves every book status alone.
C12_RejectedBatchWritesNothing ==
  [][(last' # last /\ last'.op = "assignReviewers")
       => /\ RefusedBatch(last'.book, last'.ids) => last'.code >= 400
          /\ last'.code >= 400
               => /\ assignments' = assignments
                  /\ books' = books]_vars

\* C12 witness: the list <<A, M>>, whose second id is a committee member, was
\* refused on a PENDING_REVIEW book, and the book has no assignment for A.
C12_Witness ==
  /\ last.op = "assignReviewers" /\ last.code = 404
  /\ last.msg = "One or more reviewers not found"
  /\ last.ids = <<"A", "M">>
  /\ books[last.book] = "PENDING_REVIEW"
  /\ RowsOfBook(last.book) = {}

\* number of the book's reviews with draftFlag=false that score the code c
FinalReviewsScoring(b, c) ==
  Cardinality({k \in DOMAIN reviews :
                 /\ assignments[reviews[k].assignment_id].book_id = b
                 /\ reviews[k].draft_flag = FALSE
                 /\ \E j \in DOMAIN reviews[k].scores :
                      reviews[k].scores[j].code = c})

\* C13: in a ComputeAggregate result the count of every criterion code is the
\* number of the book's non-draft reviews that score the code, and a code that
\* no non-draft review scores does not appear.
C13_CountIsFinalReviews ==
  (Quiet /\ last.op = "getAggregateStats" /\ last.code = 200)
    => \A c \in CriterionCodes :
         IF FinalReviewsScoring(last.book, c) = 0
         THEN c \notin DOMAIN last.stats
         ELSE /\ c \in DOMAIN last.stats
              /\ last.stats[c].count = FinalReviewsScoring(last.book, c)

\* C13 witness: PEDA-1 is scored only by a stored draft and is absent from the
\* result, which counts one final review for CONT-1.
C13_Witness ==
  /\ Quiet /\ last.op = "getAggregateStats" /\ last.code = 200
  /\ \E k \in DOMAIN reviews :
       reviews[k].draft_flag /\ reviews[k].scores = SheetR3.scores
  /\ "PEDA-1" \notin DOMAIN last.stats
  /\ "CONT-1" \in DOMAIN last.stats
  /\ last.stats["CONT-1"].count = 1

\* C14: ComputeAggregate on a stored book none of whose assignments is
\* COMPLETED is rejected with 'No completed reviews found' and creates no
\* AggregateResult row.
C14_NoCompletedRejected ==
  [][(last' # last /\ last'.op = "getAggregateStats"
        /\ books[last'.book] # "NONE"
        /\ \A k \in RowsOfBook(last'.book) : assignments[k].status # "COMPLETED")
       => /\ last'.code = 400
          /\ last'.msg = "No completed reviews found"
          /\ aggregates' = aggregates]_vars

\* C14 witness: the call was refused on a book with two assignments, neither
\* COMPLETED, one of them holding a stored review.
C14_Witness ==
  /\ last.op = "getAggregateStats" /\ last.code = 400
  /\ Cardinality(RowsOfBook(last.book)) = 2
  /\ \A k \in RowsOfBook(last.book) : assignments[k].status = "PENDING"
  /\ reviews # <<>>
  /\ aggregates = <<>>

\* the statistics the end-to-end run expects
RunStats(st) ==
  /\ DOMAIN st = {"CONT-1", "CONT-2"}
  /\ st["CONT-1"].mean.num = 3 * st["CONT-1"].mean.den
  /\ st["CONT-1"].min = 2 /\ st["CONT-1"].max = 4
  /\ st["CONT-2"].mean.num = 4 * st["CONT-2"].mean.den
  /\ st["CONT-2"].min = 3 /\ st["CONT-2"].max = 5

\* the statuses of the two assignments of the run
RunAssignments(st1, st2) ==
  /\ Len(assignments) = 2
  /\ assignments[1] = [NewAssignment("b1", "A", "D1") EXCEPT !.status = st1]
  /\ assignments[2] = [NewAssignment("b1", "B", "D1") EXCEPT !.status = st2]

\* C15: the run upload, AssignReviewers([A, B]), final SubmitReview by A with
\* {CONT-1:4, CONT-2:5}, final SubmitReview by B with {CONT-1:2, CONT-2:3},
\* ComputeAggregate, RecordDecision(NEEDS_REVISION) leaves, after each of its
\* requests, the state the scenario lists.
C15_EndToEndRun ==
  Quiet =>
    /\ run = 1 => books["b1"] = "PENDING_REVIEW" /\ assignments = <<>>
    /\ run = 2 => /\ books["b1"] = "UNDER_REVIEW"
                  /\ RunAssignments("PENDING", "PENDING")
    /\ run = 3 => /\ books["b1"] = "UNDER_REVIEW"
                  /\ RunAssignments("COMPLETED", "PENDING")
    /\ run = 4 => /\ books["b1"] = "REVIEW_COMPLETED"
                  /\ RunAssignments("COMPLETED", "COMPLETED")
    /\ run = 5 => /\ books["b1"] = "REVIEW_COMPLETED"
                  /\ RunStats(last.stats)
                  /\ Len(aggregates) = 1
                  /\ aggregates[1].book_id = "b1"
                  /\ RunStats(aggregates[1].stats)
    /\ run = 6 => /\ books["b1"] = "NEEDS_REVISION"
                  /\ Len(decisions) = 1
                  /\ decisions[1].book_id = "b1"
                  /\ decisions[1].decision = "NEEDS_REVISION"
                  /\ decisions[1].rationale = "insufficient detail"

\* C15 witness: the end of the run: the decision is recorded on the book whose
\* two final reviews were aggregated.
C15_Witness ==
  /\ Quiet /\ run = 6
  /\ RunAssignments("COMPLETED", "COMPLETED")
  /\ Len(reviews) = 2
  /\ Len(aggregates) = 1 /\ RunStats(aggregates[1].stats)
  /\ books["b1"] = "NEEDS_REVISION"
  /\ Len(decisions) = 1

\* C16: a SubmitReview by a caller who is not the assignment's reviewer is
\* rejected with the authorization error, whatever its body holds, and changes
\* no Review, Assignment or Book.
C16_StrangerGetsAuthorizationError ==
  [][(last' # last /\ last'.op = "submitReview"
        /\ last'.aid \in DOMAIN assignments
        /\ assignments[last'.aid].reviewer_id # last'.user)
       => /\ last'.code = 403
          /\ reviews' = reviews
          /\ assignments' = assignments
          /\ books' = books]_vars

\* C20: a successful ComputeAggregate adds exactly one AggregateResult row,
\* leaves every existing row as it was and changes no Book, Assignment or
\* Review.
C20_AggregateAppendsOneRow ==
  [][(last' # last /\ last'.op = "getAggregateStats" /\ last'.code = 200)
       => /\ Len(aggregates') = Len(aggregates) + 1
          /\ \A k \in DOMAIN aggregates : aggregates'[k] = aggregates[k]
          /\ books' = books
          /\ assignments' = assignments
          /\ reviews' = reviews]_vars

\* C17: a criterion whose code is a key of the scores of a stored review is
\* immutable: no step changes its code or weight or removes it.
C17_ReferencedCriterionImmutable ==
  [][\A id \in CriterionIds :
       (criteria[id] # NoCriterion /\ UsedInReviews(criteria[id].code))
         => criteria'[id] = criteria[id]]_vars

\* C18: every stored review was preceded by a conflict-of-interest
\* declaration of its reviewer for its assignment.
C18_ReviewNeedsDeclaration ==
  \A k \in DOMAIN reviews :
    \E d \in coi : /\ d.assignment_id = reviews[k].assignment_id
                   /\ d.reviewer_id = reviews[k].reviewer_id

\* a job whose processing failed and that will not be tried again
LeftFailed(j) ==
  \/ jobs[j].state = "failed"
  \/ /\ jobs[j].queue = "reminder"
     /\ jobs[j].state = "completed"
     /\ reminders[jobs[j].ref].status = "FAILED"

\* C19: a job of either queue is left failed only after three attempts, and a
\* job waiting for its next attempt after a failure waits for a backoff delay.
C19_ThreeAttemptsBeforeFailed ==
  \A j \in DOMAIN jobs :
    /\ LeftFailed(j) => jobs[j].attemptsMade = 3
    /\ (jobs[j].state = "delayed" /\ jobs[j].attemptsMade > 0)
         => jobs[j].delay > 0

\* C21: an assignment's status becomes OVERDUE only in the step of an
\* UpdateAssignment carrying status=OVERDUE, and every such call on a stored
\* assignment leaves it OVERDUE, whatever the state of its book.
C21_OverdueOnlyExplicit ==
  [][/\ \A a \in DOMAIN assignments :
          (assignments[a].status # "OVERDUE"
             /\ assignments'[a].status = "OVERDUE")
            => /\ last' # last /\ last'.op = "updateAssignment"
               /\ last'.status = "OVERDUE" /\ last'.aid = a
     /\ (last' # last /\ last'.op = "updateAssignment"
           /\ last'.status = "OVERDUE" /\ last'.aid \in DOMAIN assignments)
          => assignments'[last'.aid].status = "OVERDUE"]_vars

\* number of the scores of xs for which the test holds
CountOf(xs, Test(_)) == Cardinality({k \in DOMAIN xs : Test(xs[k])})

\* C22: for a criterion with N scores in 1..5 the reported median is the
\* element at index floor(N/2) of the scores in ascending order, that is the
\* upper-middle one when N is even, and min <= median <= max.
C22_MedianIsUpperMiddle ==
  last.op = "criterionStats"
    => LET xs == last.sample
           m == last.stats.median
           Below(x) == x < m
           AtMost(x) == x <= m
       IN /\ \E k \in DOMAIN xs : xs[k] = m
          /\ CountOf(xs, Below) <= Len(xs) \div 2
          /\ Len(xs) \div 2 < CountOf(xs, AtMost)
          /\ last.stats.min <= m
          /\ m <= last.stats.max

\* C22 witness: of the two scores 4 and 2, read in that order, the median
\* reported is 4, the upper of the two middle ones.
C22_Witness ==
  /\ last.op = "criterionStats"
  /\ last.sample = <<4, 2>>
  /\ last.stats.median = 4
  /\ last.stats.min = 2 /\ last.stats.max = 4

\* the declarations stored for an assignment and a reviewer
DeclarationsOf(a, u) ==
  {d \in coi : d.assignment_id = a /\ d.reviewer_id = u}

AnalyticsOps ==
  {"getReviewerMetrics", "getSystemAnalytics", "getAssignmentTracking"}

\* C24: each of the three analytics endpoints answers 200 to a caller whose
\* role is ADMIN or SECRETARIAT and 403 'Access denied' to every other caller,
\* and assignment-tracking with a status filter returns only assignments with
\* that status.
C24_AnalyticsByRole ==
  (Quiet /\ last.op \in AnalyticsOps)
    => /\ Role(last.user) \in {"ADMIN", "SECRETARIAT"} => last.code = 200
       /\ Role(last.user) \notin {"ADMIN", "SECRETARIAT"}
            => last.code = 403 /\ last.msg = "Access denied"
       /\ (last.op = "getAssignmentTracking" /\ last.filter # "")
            => \A k \in last.rows : assignments[k].status = last.filter

\* the request in slot s is a final SubmitReview making its all-assignments
\* check while a final SubmitReview on another assignment of the same book is
\* in flight in slot t and has updated its assignment too
ChecksBesidePeer(s, t) ==
  /\ s # t
  /\ req[s].op = "submitReview" /\ ~req[s].draft /\ req[s].pc = "sr_all"
  /\ req[t].op = "submitReview" /\ ~req[t].draft
  /\ req[t].pc \in {"sr_all", "sr_book"}
  /\ req[t].aid # req[s].aid
  /\ req[t].sAsg.book_id = req[s].sAsg.book_id
  /\ req[s].sAsg.status # "COMPLETED" /\ req[t].sAsg.status # "COMPLETED"
  /\ req'[s] # req[s]

\* C25 as stated needs a final SubmitReview that makes its all-assignments
\* check after both of the last two assignments were updated to observe 'not
\* all complete' and to leave the book alone.
C25_CheckBesidePeerMisses ==
  [][\A s, t \in Slots :
       ChecksBesidePeer(s, t) => req'[s].pc = "idle" /\ books' = books]_vars

\* C25: of two concurrent final SubmitReview requests on the last two
\* incomplete assignments of a book, the one that checks after both
\* assignments were updated observes 'all complete' and goes on to set the
\* book REVIEW_COMPLETED; and whenever no request is in flight a book with
\* assignments that are all COMPLETED is REVIEW_COMPLETED.
C25_CheckBesidePeerCompletes ==
  /\ [][\A s, t \in Slots :
          ChecksBesidePeer(s, t) => req'[s].pc = "sr_book"]_vars
  /\ [](\A b \in BookIds :
          (Quiet /\ RowsOfBook(b) # {}
                 /\ \A k \in RowsOfBook(b) : assignments[k].status = "COMPLETED")
            => books[b] = "REVIEW_COMPLETED")

\* C25 witness: the two reviewers of a book submitted their final reviews
\* concurrently, both observed 'all complete', and both are about to set the
\* book, still UNDER_REVIEW, to REVIEW_COMPLETED.
C25_Witness ==
  /\ req["s1"].op = "submitReview" /\ req["s1"].pc = "sr_book"
  /\ req["s2"].op = "submitReview" /\ req["s2"].pc = "sr_book"
  /\ req["s1"].aid # req["s2"].aid
  /\ req["s1"].sAsg.status = "PENDING" /\ req["s2"].sAsg.status = "PENDING"
  /\ \A k \in RowsOfBook("b1") : assignments[k].status = "COMPLETED"
  /\ books["b1"] = "UNDER_REVIEW"

\* C26: whenever no request is in flight, a book that has assignments, all
\* of them COMPLETED, is neither PENDING_REVIEW nor UNDER_REVIEW.
C26_AllCompletedMovesBook ==
  \A b \in BookIds :
    (Quiet /\ RowsOfBook(b) # {}
           /\ \A k \in RowsOfBook(b) : assignments[k].status = "COMPLETED")
      => books[b] \notin {"PENDING_REVIEW", "UNDER_REVIEW"}

\* C27: a book whose status is REVIEW_COMPLETED has every one of its
\* assignments in status COMPLETED.
C27_ReviewCompletedMeansAllCompleted ==
  \A b \in BookIds :
    books[b] = "REVIEW_COMPLETED"
      => \A k \in RowsOfBook(b) : assignments[k].status = "COMPLETED"

\* C28: every COMPLETED assignment has a stored review with draftFlag=false,
\* and a ComputeAggregate that is accepted reports at least one criterion.
C28_CompletedHasFinalReview ==
  /\ \A a \in DOMAIN assignments :
       assignments[a].status = "COMPLETED"
         => \E k \in DOMAIN reviews :
              reviews[k].assignment_id = a /\ ~reviews[k].draft_flag
  /\ (Quiet /\ last.op = "getAggregateStats" /\ last.code = 200)
       => DOMAIN last.stats # {}

\* the most recently created decision row of the book b
LatestDecision(b) ==
  decisions[CHOOSE k \in DecisionsOf(b) : \A j \in DecisionsOf(b) : j <= k]

\* C29: whenever no request is in flight, a book has a decision row exactly
\* when its status is APPROVED, REJECTED or NEEDS_REVISION, and its status is
\* then the decision of its most recently created row.
C29_StatusIsLatestDecision ==
  Quiet => \A b \in BookIds :
    /\ DecisionsOf(b) # {} <=> books[b] \in Decision
    /\ DecisionsOf(b) # {} => books[b] = LatestDecision(b).decision

\* C30: the worker attempts the delivery only for a reminder whose status is
\* PENDING, and no step changes the status of a reminder that is CANCELLED.
C30_CancelledStaysCancelled ==
  [][/\ \A j \in DOMAIN jobs :
          (jobs[j].queue = "reminder" /\ jobs[j].step = "deliver"
             /\ jobs'[j].step = "update")
            => reminders[jobs[j].ref].status = "PENDING"
     /\ \A rid \in DOMAIN reminders :
          reminders[rid].status = "CANCELLED"
            => reminders'[rid].status = "CANCELLED"]_vars

====
